---- MODULE Spec2Model ----
(***************************************************************************)
(* Model of stl::skip_list<T, Compare> (include/skip_list.h).              *)
(*                                                                         *)
(* The free store is an arena `heap` of MaxAddr node slots.  A node is a   *)
(* record [value, forward] whose forward array is indexed 0..level, as in  *)
(* Node::forward.  Every container object is a record with the data       *)
(* members of the class: current_level, element_count, head, tail, comp.   *)
(* The head sentinel is an ordinary heap node of level MAX_LEVEL.          *)
(* operator new throws std::bad_alloc when the arena has no free slot, or   *)
(* whenever the rest of the process has used the memory up (input         *)
(* alloc_ok = FALSE of the operations that allocate).                      *)
(*                                                                         *)
(* The program only compares node addresses for equality and dereferences  *)
(* them, so where operator new places a node is immaterial.  The model     *)
(* keeps the heap in one numbering: after every operation the nodes are    *)
(* renumbered in the order A's head, A's level-0 chain, B's head, B's      *)
(* level-0 chain, then every other slot in its old order (Renumbered).     *)
(* States that differ only in the placement of the nodes are thereby one   *)
(* state; every stored address (links, head, tail, returned positions) is  *)
(* renamed with the nodes.                                                 *)
(***************************************************************************)
EXTENDS Integers, Sequences, FiniteSets, TLC

\* ---------------------------------------------------------------- constants
MAX_LEVEL == 16

\* ------------------------------------------------------------------- bounds
MaxVal == 3       \* element values are 1..MaxVal
MaxDraw == 1      \* small numbers of successful coin draws that are enumerated
MaxAddr == 6      \* number of node slots of the free store
MaxLen == 2       \* longest input sequence of the range forms
MaxObjVal == 2    \* element values where two objects are explored

Null == 0
Values == 1..MaxVal
Addrs == 1..MaxAddr
Ptrs == Addrs \cup {Null}
\* the value of an iterator whose node has been deleted
Stale == MaxAddr + 1
Levels == 0..MAX_LEVEL
Containers == {"A", "B"}
Relations == {"less", "greater"}

\* Number of consecutive draws dist(gen) < PROBABILITY before the first
\* draw that is not: the small ones, and one that runs into the cap.
Draws == (0..MaxDraw) \cup {MAX_LEVEL + 1}

VARIABLES
    heap,   \* free store: Addrs -> node, or FreeSlot
    sl,     \* the container objects: Containers -> skip_list data members
    ret,    \* what the last public operation returned
    held    \* a position the caller keeps: an iterator value saved earlier

vars == <<heap, sl, ret, held>>

\* ------------------------------------------------------------------ helpers
FreeSlot == [value |-> 0, forward |-> << >>]

IsFree(h, a) == h[a] = FreeSlot

FreeAddrs(h) == {a \in Addrs : IsFree(h, a)}

\* The value-initialised T() stored in the head sentinel.
DefaultValue == 0

\* Node(val, level): value(val), forward(level + 1, nullptr)
Node(val, level) == [value |-> val, forward |-> [i \in 0..level |-> Null]]

\* operator new: first free slot of the arena
new_addr(h) == CHOOSE a \in FreeAddrs(h) : \A b \in FreeAddrs(h) : a <= b

\* The ordering relation object: std::less-like or std::greater-like.
Compare(f, a, b) == IF f = "less" THEN a < b ELSE a > b

\* the equality test with its first negation left out
is_equal_forgot_not(f, value, current_value) ==
    Compare(f, value, current_value) /\ ~Compare(f, current_value, value)

\* !comp(value, current->value) && !comp(current->value, value)
is_equal(f, value, current_value) ==
    ~Compare(f, value, current_value) /\ ~Compare(f, current_value, value)

\* A container object that is not (or no longer) constructed.
NoObject ==
    [current_level |-> 0, element_count |-> 0, head |-> Null, tail |-> Null,
     comp |-> "less"]

Constructed(s) == s.head # Null

\* Result record of a public operation: the operation, the object it was
\* called on, its argument, and what it returned (positions, flag, number).
Ret(op, c, arg, pos, pos2, flag, n) ==
    [op |-> op, c |-> c, arg |-> arg, pos |-> pos, pos2 |-> pos2,
     flag |-> flag, n |-> n]

NoRet == Ret("nothing", "A", 0, Null, Null, FALSE, 0)

\* ---------------------------------------------------------- level generator
\* the loop without the test level < MAX_LEVEL
RECURSIVE random_level_uncapped(_, _)
random_level_uncapped(level, k) ==
    IF level < k
    THEN random_level_uncapped(level + 1, k)
    ELSE level

RECURSIVE random_level_loop(_, _)
random_level_loop(level, k) ==
    IF level < k /\ level < MAX_LEVEL
    THEN random_level_loop(level + 1, k)
    ELSE level

\* k: how many draws in a row fall below PROBABILITY
random_level(k) == random_level_loop(0, k)

\* ------------------------------------------------------------------ descent
\* the inner loop with the arguments of comp exchanged
RECURSIVE walk_swapped(_, _, _, _, _)
walk_swapped(h, f, current, i, value) ==
    LET nxt == h[current].forward[i] IN
    IF nxt # Null /\ Compare(f, value, h[nxt].value)
    THEN walk_swapped(h, f, nxt, i, value)
    ELSE current

\* inner while loop of the descent at level i, strict-less form
RECURSIVE walk(_, _, _, _, _)
walk(h, f, current, i, value) ==
    LET nxt == h[current].forward[i] IN
    IF nxt # Null /\ Compare(f, h[nxt].value, value)
    THEN walk(h, f, nxt, i, value)
    ELSE current

\* for (int i = current_level; i >= 0; --i) { while ...; update[i] = current; }
RECURSIVE descend(_, _, _, _, _, _)
descend(h, f, current, i, value, update) ==
    IF i < 0 THEN update
    ELSE LET stop == walk(h, f, current, i, value) IN
         descend(h, f, stop, i - 1, value, [update EXCEPT ![i] = stop])

EmptyUpdate == [i \in Levels |-> Null]

\* ------------------------------------------------------------------- insert
\* the splice loop with i < new_level as its condition
RECURSIVE splice_one_short(_, _, _, _, _)
splice_one_short(h, update, new_node, i, new_level) ==
    IF i >= new_level THEN h
    ELSE LET h1 == [h EXCEPT ![new_node].forward[i] = h[update[i]].forward[i]]
             h2 == [h1 EXCEPT ![update[i]].forward[i] = new_node]
         IN splice_one_short(h2, update, new_node, i + 1, new_level)

\* the splice loop begun at level 1
RECURSIVE splice_above_zero(_, _, _, _, _)
splice_above_zero(h, update, new_node, i, new_level) ==
    IF i > new_level THEN h
    ELSE IF i = 0 THEN splice_above_zero(h, update, new_node, 1, new_level)
    ELSE LET h1 == [h EXCEPT ![new_node].forward[i] = h[update[i]].forward[i]]
             h2 == [h1 EXCEPT ![update[i]].forward[i] = new_node]
         IN splice_above_zero(h2, update, new_node, i + 1, new_level)

\* for (i = 0; i <= new_level; ++i) { new_node->forward[i] = update[i]->forward[i];
\*                                    update[i]->forward[i] = new_node; }
RECURSIVE splice(_, _, _, _, _)
splice(h, update, new_node, i, new_level) ==
    IF i > new_level THEN h
    ELSE LET h1 == [h EXCEPT ![new_node].forward[i] = h[update[i]].forward[i]]
             h2 == [h1 EXCEPT ![update[i]].forward[i] = new_node]
         IN splice(h2, update, new_node, i + 1, new_level)

\* the predecessors of old made to point at new, level by level
RECURSIVE replace_links(_, _, _, _, _, _)
replace_links(h, update, old, new, i, current_level) ==
    IF i > current_level THEN h
    ELSE replace_links(IF h[update[i]].forward[i] = old
                       THEN [h EXCEPT ![update[i]].forward[i] = new] ELSE h,
                       update, old, new, i + 1, current_level)

\* the insert that replaces the node of an equal element by a new node
insert_replacing(h, s, value, k, alloc_ok) ==
    LET update0 == descend(h, s.comp, s.head, s.current_level, value, EmptyUpdate)
        current == h[update0[0]].forward[0]
        new_level == random_level(k)
        raised == new_level > s.current_level
        update == [i \in Levels |->
                     IF raised /\ i >= s.current_level + 1 /\ i <= new_level
                     THEN s.head ELSE update0[i]]
        s1 == IF raised THEN [s EXCEPT !.current_level = new_level] ELSE s
    IN
    IF current # Null /\ is_equal(s.comp, value, h[current].value)
    THEN IF ~alloc_ok \/ FreeAddrs(h) = {}
         THEN [heap |-> h, s |-> s, pos |-> Null, flag |-> FALSE, threw |-> TRUE]
         ELSE LET new_node == new_addr(h)
                  h0 == [h EXCEPT ![new_node] = h[current]]
                  h1 == replace_links(h0, update0, current, new_node, 0, s.current_level)
                  h2 == [h1 EXCEPT ![current] = FreeSlot]
                  s2 == IF s.tail = current THEN [s EXCEPT !.tail = new_node] ELSE s
              IN [heap |-> h2, s |-> s2, pos |-> new_node, flag |-> FALSE, threw |-> FALSE]
    ELSE IF ~alloc_ok \/ FreeAddrs(h) = {}
    THEN [heap |-> h, s |-> s1, pos |-> Null, flag |-> FALSE, threw |-> TRUE]
    ELSE
      LET new_node == new_addr(h)
          h0 == [h EXCEPT ![new_node] = Node(value, new_level)]
          h1 == splice(h0, update, new_node, 0, new_level)
          s2 == IF h1[new_node].forward[0] = Null
                THEN [s1 EXCEPT !.tail = new_node] ELSE s1
          s3 == [s2 EXCEPT !.element_count = @ + 1]
      IN [heap |-> h1, s |-> s3, pos |-> new_node, flag |-> TRUE, threw |-> FALSE]

\* the insert that counts the element before it allocates the node
insert_counts_before_new(h, s, value, k, alloc_ok) ==
    LET update0 == descend(h, s.comp, s.head, s.current_level, value, EmptyUpdate)
        current == h[update0[0]].forward[0]
        new_level == random_level(k)
        raised == new_level > s.current_level
        update == [i \in Levels |->
                     IF raised /\ i >= s.current_level + 1 /\ i <= new_level
                     THEN s.head ELSE update0[i]]
        s1 == IF raised THEN [s EXCEPT !.current_level = new_level] ELSE s
        s2 == [s1 EXCEPT !.element_count = @ + 1]
    IN
    IF current # Null /\ is_equal(s.comp, value, h[current].value)
    THEN [heap |-> h, s |-> s, pos |-> current, flag |-> FALSE, threw |-> FALSE]
    ELSE IF ~alloc_ok \/ FreeAddrs(h) = {}
    THEN [heap |-> h, s |-> s2, pos |-> Null, flag |-> FALSE, threw |-> TRUE]
    ELSE
      LET new_node == new_addr(h)
          h0 == [h EXCEPT ![new_node] = Node(value, new_level)]
          h1 == splice(h0, update, new_node, 0, new_level)
          s3 == IF h1[new_node].forward[0] = Null
                THEN [s2 EXCEPT !.tail = new_node] ELSE s2
      IN [heap |-> h1, s |-> s3, pos |-> new_node, flag |-> TRUE, threw |-> FALSE]

\* std::pair<iterator, bool> insert(const T& value), on container object s.
\* Result: the new heap and object, the returned pair (pos, flag), and
\* threw = TRUE when new Node(...) threw std::bad_alloc.  k is the draw of
\* the level generator, alloc_ok whether the process has memory left.
insert(h, s, value, k, alloc_ok) ==
    LET update0 == descend(h, s.comp, s.head, s.current_level, value, EmptyUpdate)
        current == h[update0[0]].forward[0]
        new_level == random_level(k)
        raised == new_level > s.current_level
        update == [i \in Levels |->
                     IF raised /\ i >= s.current_level + 1 /\ i <= new_level
                     THEN s.head ELSE update0[i]]
        s1 == IF raised THEN [s EXCEPT !.current_level = new_level] ELSE s
    IN
    IF current # Null /\ is_equal(s.comp, value, h[current].value)
    THEN [heap |-> h, s |-> s, pos |-> current, flag |-> FALSE, threw |-> FALSE]
    ELSE IF ~alloc_ok \/ FreeAddrs(h) = {}
    THEN [heap |-> h, s |-> s1, pos |-> Null, flag |-> FALSE, threw |-> TRUE]
    ELSE
      LET new_node == new_addr(h)
          h0 == [h EXCEPT ![new_node] = Node(value, new_level)]
          h1 == splice(h0, update, new_node, 0, new_level)
          s2 == IF h1[new_node].forward[0] = Null
                THEN [s1 EXCEPT !.tail = new_node] ELSE s1
          s3 == [s2 EXCEPT !.element_count = @ + 1]
      IN [heap |-> h1, s |-> s3, pos |-> new_node, flag |-> TRUE, threw |-> FALSE]

\* -------------------------------------------------------------------- erase
\* the unlink loop that relinks level 0 only
unlink_level_zero_only(h, update, node_to_delete, i, current_level) ==
    IF h[update[0]].forward[0] # node_to_delete THEN h
    ELSE [h EXCEPT ![update[0]].forward[0] = h[node_to_delete].forward[0]]

\* for (i = 0; i <= current_level; ++i) { if (update[i]->forward[i] != node_to_delete) break;
\*                                        update[i]->forward[i] = node_to_delete->forward[i]; }
RECURSIVE unlink(_, _, _, _, _)
unlink(h, update, node_to_delete, i, current_level) ==
    IF i > current_level THEN h
    ELSE IF h[update[i]].forward[i] # node_to_delete THEN h
    ELSE unlink([h EXCEPT ![update[i]].forward[i] = h[node_to_delete].forward[i]],
                update, node_to_delete, i + 1, current_level)

\* while (current_level > 0 && head->forward[current_level] == nullptr) --current_level;
RECURSIVE shrink_level(_, _, _)
shrink_level(h, hd, current_level) ==
    IF current_level > 0 /\ h[hd].forward[current_level] = Null
    THEN shrink_level(h, hd, current_level - 1)
    ELSE current_level

\* the erase that returns the position it was given
erase_returns_pos(h, s, pos) ==
    IF pos = Null
    THEN [heap |-> h, s |-> s, pos |-> Null, erased |-> FALSE]
    ELSE
      LET node_to_delete == pos
          update == descend(h, s.comp, s.head, s.current_level,
                            h[node_to_delete].value, EmptyUpdate)
          current == h[update[0]].forward[0]
      IN
      IF current # node_to_delete
      THEN [heap |-> h, s |-> s, pos |-> Null, erased |-> FALSE]
      ELSE
        LET h1 == unlink(h, update, node_to_delete, 0, s.current_level)
            s1 == IF node_to_delete = s.tail
                  THEN [s EXCEPT !.tail = IF update[0] = s.head THEN Null
                                          ELSE update[0]]
                  ELSE s
            h2 == [h1 EXCEPT ![node_to_delete] = FreeSlot]
            s2 == [s1 EXCEPT !.current_level = shrink_level(h2, s.head, @)]
            s3 == [s2 EXCEPT !.element_count = @ - 1]
        IN [heap |-> h2, s |-> s3, pos |-> pos, erased |-> TRUE]

\* the erase that moves tail to the predecessor even when that is the head
erase_tail_to_predecessor(h, s, pos) ==
    IF pos = Null
    THEN [heap |-> h, s |-> s, pos |-> Null, erased |-> FALSE]
    ELSE
      LET node_to_delete == pos
          next == h[node_to_delete].forward[0]
          update == descend(h, s.comp, s.head, s.current_level,
                            h[node_to_delete].value, EmptyUpdate)
          current == h[update[0]].forward[0]
      IN
      IF current # node_to_delete
      THEN [heap |-> h, s |-> s, pos |-> Null, erased |-> FALSE]
      ELSE
        LET h1 == unlink(h, update, node_to_delete, 0, s.current_level)
            s1 == IF node_to_delete = s.tail
                  THEN [s EXCEPT !.tail = update[0]]
                  ELSE s
            h2 == [h1 EXCEPT ![node_to_delete] = FreeSlot]
            s2 == [s1 EXCEPT !.current_level = shrink_level(h2, s.head, @)]
            s3 == [s2 EXCEPT !.element_count = @ - 1]
        IN [heap |-> h2, s |-> s3, pos |-> next, erased |-> TRUE]

\* the erase that looks its element up by the value under pos only
erase_by_value_under_pos(h, s, pos) ==
    IF pos = Null
    THEN [heap |-> h, s |-> s, pos |-> Null, erased |-> FALSE]
    ELSE
      LET update == descend(h, s.comp, s.head, s.current_level,
                            h[pos].value, EmptyUpdate)
          node_to_delete == h[update[0]].forward[0]
      IN
      IF node_to_delete = Null \/ ~is_equal(s.comp, h[pos].value, h[node_to_delete].value)
      THEN [heap |-> h, s |-> s, pos |-> Null, erased |-> FALSE]
      ELSE
        LET next == h[node_to_delete].forward[0]
            h1 == unlink(h, update, node_to_delete, 0, s.current_level)
            s1 == IF node_to_delete = s.tail
                  THEN [s EXCEPT !.tail = IF update[0] = s.head THEN Null
                                          ELSE update[0]]
                  ELSE s
            h2 == [h1 EXCEPT ![node_to_delete] = FreeSlot]
            s2 == [s1 EXCEPT !.current_level = shrink_level(h2, s.head, @)]
            s3 == [s2 EXCEPT !.element_count = @ - 1]
        IN [heap |-> h2, s |-> s3, pos |-> next, erased |-> TRUE]

\* iterator erase(iterator pos), on container object s; pos is a node address
\* or Null for end().  erased = TRUE when a node was unlinked and deleted.
erase(h, s, pos) ==
    IF pos = Null
    THEN [heap |-> h, s |-> s, pos |-> Null, erased |-> FALSE]
    ELSE
      LET node_to_delete == pos
          next == h[node_to_delete].forward[0]
          update == descend(h, s.comp, s.head, s.current_level,
                            h[node_to_delete].value, EmptyUpdate)
          current == h[update[0]].forward[0]
      IN
      IF current # node_to_delete
      THEN [heap |-> h, s |-> s, pos |-> Null, erased |-> FALSE]
      ELSE
        LET h1 == unlink(h, update, node_to_delete, 0, s.current_level)
            s1 == IF node_to_delete = s.tail
                  THEN [s EXCEPT !.tail = IF update[0] = s.head THEN Null
                                          ELSE update[0]]
                  ELSE s
            h2 == [h1 EXCEPT ![node_to_delete] = FreeSlot]
            s2 == [s1 EXCEPT !.current_level = shrink_level(h2, s.head, @)]
            s3 == [s2 EXCEPT !.element_count = @ - 1]
        IN [heap |-> h2, s |-> s3, pos |-> next, erased |-> TRUE]

\* ------------------------------------------------------------------ queries
\* find without the comparison for equality
find_any_successor(h, s, value) ==
    LET update == descend(h, s.comp, s.head, s.current_level, value, EmptyUpdate)
    IN h[update[0]].forward[0]

\* iterator find(const T& value)
find(h, s, value) ==
    LET update == descend(h, s.comp, s.head, s.current_level, value, EmptyUpdate)
        current == h[update[0]].forward[0]
    IN IF current # Null /\ is_equal(s.comp, value, h[current].value)
       THEN current ELSE Null

\* size_type count(const T& value) const
count(h, s, value) == IF find(h, s, value) # Null THEN 1 ELSE 0

\* iterator lower_bound(const T& value)
lower_bound(h, s, value) ==
    LET update == descend(h, s.comp, s.head, s.current_level, value, EmptyUpdate)
    IN h[update[0]].forward[0]

\* the inner loop of upper_bound with the condition of lower_bound
RECURSIVE walk_not_greater_strict(_, _, _, _, _)
walk_not_greater_strict(h, f, current, i, value) ==
    LET nxt == h[current].forward[i] IN
    IF nxt # Null /\ Compare(f, h[nxt].value, value)
    THEN walk_not_greater_strict(h, f, nxt, i, value)
    ELSE current

\* descent of upper_bound: advance while !comp(value, current->forward[i]->value)
RECURSIVE walk_not_greater(_, _, _, _, _)
walk_not_greater(h, f, current, i, value) ==
    LET nxt == h[current].forward[i] IN
    IF nxt # Null /\ ~Compare(f, value, h[nxt].value)
    THEN walk_not_greater(h, f, nxt, i, value)
    ELSE current

RECURSIVE descend_not_greater(_, _, _, _, _)
descend_not_greater(h, f, current, i, value) ==
    IF i < 0 THEN current
    ELSE descend_not_greater(h, f, walk_not_greater(h, f, current, i, value),
                             i - 1, value)

\* iterator upper_bound(const T& value)
upper_bound(h, s, value) ==
    LET current == descend_not_greater(h, s.comp, s.head, s.current_level, value)
    IN h[current].forward[0]

\* equal_range without !comp(value, *it)
equal_range_unchecked(h, s, value) ==
    LET it == lower_bound(h, s, value) IN
    IF it # Null
    THEN <<it, h[it].forward[0]>>
    ELSE <<it, it>>

\* std::pair<iterator, iterator> equal_range(const T& value)
equal_range(h, s, value) ==
    LET it == lower_bound(h, s, value) IN
    IF it # Null /\ ~Compare(s.comp, value, h[it].value)
    THEN <<it, h[it].forward[0]>>
    ELSE <<it, it>>

\* erase(value) that locates the element with lower_bound
erase_value_by_lower_bound(h, s, value) ==
    LET it == lower_bound(h, s, value) IN
    IF it # Null
    THEN LET r == erase(h, s, it) IN [heap |-> r.heap, s |-> r.s, n |-> 1]
    ELSE [heap |-> h, s |-> s, n |-> 0]

\* size_type erase(const T& value)
erase_value(h, s, value) ==
    LET it == find(h, s, value) IN
    IF it # Null
    THEN LET r == erase(h, s, it) IN [heap |-> r.heap, s |-> r.s, n |-> 1]
    ELSE [heap |-> h, s |-> s, n |-> 0]

\* -------------------------------------------------------------------- clear
\* while (current != nullptr) { next = current->forward[0]; delete current; current = next; }
RECURSIVE delete_chain(_, _)
delete_chain(h, current) ==
    IF current = Null THEN h
    ELSE delete_chain([h EXCEPT ![current] = FreeSlot], h[current].forward[0])

\* clear without current_level = 0
clear_keeps_level(h, s) ==
    LET h1 == delete_chain(h, h[s.head].forward[0])
        h2 == [h1 EXCEPT ![s.head].forward = [i \in Levels |-> Null]]
    IN [heap |-> h2,
        s |-> [s EXCEPT !.element_count = 0, !.tail = Null]]

\* void clear() noexcept
clear(h, s) ==
    LET h1 == delete_chain(h, h[s.head].forward[0])
        h2 == [h1 EXCEPT ![s.head].forward = [i \in Levels |-> Null]]
    IN [heap |-> h2,
        s |-> [s EXCEPT !.current_level = 0, !.element_count = 0, !.tail = Null]]

\* ------------------------------------------- construction, assignment, swap
\* skip_list() / skip_list(const Compare&)
construct(h, f) ==
    LET hd == new_addr(h) IN
    [heap |-> [h EXCEPT ![hd] = Node(DefaultValue, MAX_LEVEL)],
     s |-> [current_level |-> 0, element_count |-> 0, head |-> hd,
            tail |-> Null, comp |-> f]]

\* ~skip_list(): clear(); delete head;
destroy(h, s) ==
    LET r == clear(h, s) IN
    [heap |-> [r.heap EXCEPT ![s.head] = FreeSlot], s |-> NoObject]

\* the range insert that advances first before its first insert
RECURSIVE insert_range_skips_first(_, _, _, _, _)
insert_range_skips_first(h, s, values, ks, fail) ==
    IF values = << >> \/ Tail(values) = << >>
    THEN [heap |-> h, s |-> s, threw |-> FALSE]
    ELSE LET r == insert(h, s, Head(Tail(values)), Head(Tail(ks)), fail # 1) IN
         IF r.threw THEN [heap |-> r.heap, s |-> r.s, threw |-> TRUE]
         ELSE insert_range_skips_first(r.heap, r.s, Tail(values), Tail(ks),
                                       IF r.flag /\ fail > 0 THEN fail - 1 ELSE fail)

\* void insert(InputIt first, InputIt last): for (; first != last; ++first) insert(*first);
\* ks[j] is the draw of the level generator available to the j-th insert;
\* the allocation of the fail-th insert that allocates fails (0: none does).
RECURSIVE insert_range(_, _, _, _, _)
insert_range(h, s, values, ks, fail) ==
    IF values = << >> THEN [heap |-> h, s |-> s, threw |-> FALSE]
    ELSE LET r == insert(h, s, Head(values), Head(ks), fail # 1) IN
         IF r.threw THEN [heap |-> r.heap, s |-> r.s, threw |-> TRUE]
         ELSE insert_range(r.heap, r.s, Tail(values), Tail(ks),
                           IF r.flag /\ fail > 0 THEN fail - 1 ELSE fail)

\* for (const auto& val : other) insert(val);   it walks the source's level 0
RECURSIVE copy_from(_, _, _, _, _)
copy_from(h, s, it, ks, fail) ==
    IF it = Null THEN [heap |-> h, s |-> s, threw |-> FALSE]
    ELSE LET r == insert(h, s, h[it].value, Head(ks), fail # 1) IN
         IF r.threw THEN [heap |-> r.heap, s |-> r.s, threw |-> TRUE]
         ELSE copy_from(r.heap, r.s, r.heap[it].forward[0], Tail(ks),
                        IF r.flag /\ fail > 0 THEN fail - 1 ELSE fail)

\* skip_list(const skip_list& other).  When an insert throws, the constructor
\* exits by the exception: no object exists and no destructor runs, so the
\* head and the nodes allocated so far stay allocated.
copy_construct(h, other, ks, fail) ==
    LET r0 == construct(h, other.comp)
        r == copy_from(r0.heap, r0.s, r0.heap[other.head].forward[0], ks, fail)
    IN IF r.threw THEN [heap |-> r.heap, s |-> NoObject, threw |-> TRUE]
       ELSE r

\* the move constructor without other.tail = nullptr
move_construct_keeps_tail(h, other) ==
    LET s == [current_level |-> other.current_level,
              element_count |-> other.element_count,
              head |-> other.head, tail |-> other.tail, comp |-> other.comp]
        r0 == construct(h, other.comp)
    IN [heap |-> r0.heap, s |-> s,
        other |-> [other EXCEPT !.head = r0.s.head, !.current_level = 0,
                                !.element_count = 0]]

\* skip_list(skip_list&& other) noexcept: the new object, and other afterwards
move_construct(h, other) ==
    LET s == [current_level |-> other.current_level,
              element_count |-> other.element_count,
              head |-> other.head, tail |-> other.tail, comp |-> other.comp]
        r0 == construct(h, other.comp)
    IN [heap |-> r0.heap, s |-> s,
        other |-> [other EXCEPT !.head = r0.s.head, !.current_level = 0,
                                !.element_count = 0, !.tail = Null]]

\* skip_list(InputIt first, InputIt last, const Compare& comp) and the
\* initializer-list form: skip_list(comp), then insert(first, last).  The
\* delegated constructor has completed, so an exception runs the destructor.
range_construct(h, f, values, ks, fail) ==
    LET r0 == construct(h, f)
        r == insert_range(r0.heap, r0.s, values, ks, fail)
    IN IF r.threw
       THEN LET d == destroy(r.heap, r.s) IN
            [heap |-> d.heap, s |-> NoObject, threw |-> TRUE]
       ELSE r

\* the copy assignment without its clear()
copy_assign_without_clear(h, s, other, ks, fail) ==
    LET s1 == [s EXCEPT !.comp = other.comp]
    IN copy_from(h, s1, h[other.head].forward[0], ks, fail)

\* skip_list& operator=(const skip_list& other), this != &other
copy_assign(h, s, other, ks, fail) ==
    LET r0 == clear(h, s)
        s1 == [r0.s EXCEPT !.comp = other.comp]
    IN copy_from(r0.heap, s1, r0.heap[other.head].forward[0], ks, fail)

\* the move assignment without other.element_count = 0
move_assign_keeps_count(h, s, other) ==
    LET r0 == clear(h, s)
        h1 == [r0.heap EXCEPT ![s.head] = FreeSlot]
        s1 == [head |-> other.head, tail |-> other.tail,
               current_level |-> other.current_level,
               element_count |-> other.element_count, comp |-> other.comp]
        r1 == construct(h1, other.comp)
    IN [heap |-> r1.heap, s |-> s1,
        other |-> [other EXCEPT !.head = r1.s.head, !.current_level = 0,
                                !.tail = Null]]

\* skip_list& operator=(skip_list&& other) noexcept, this != &other
move_assign(h, s, other) ==
    LET r0 == clear(h, s)
        h1 == [r0.heap EXCEPT ![s.head] = FreeSlot]
        s1 == [head |-> other.head, tail |-> other.tail,
               current_level |-> other.current_level,
               element_count |-> other.element_count, comp |-> other.comp]
        r1 == construct(h1, other.comp)
    IN [heap |-> r1.heap, s |-> s1,
        other |-> [other EXCEPT !.head = r1.s.head, !.current_level = 0,
                                !.element_count = 0, !.tail = Null]]

\* the range erase with an if in place of its while
erase_range_once(h, s, first, last) ==
    IF first = last THEN [heap |-> h, s |-> s, pos |-> first]
    ELSE LET r == erase(h, s, first) IN [heap |-> r.heap, s |-> r.s, pos |-> r.pos]

\* iterator erase(iterator first, iterator last)
RECURSIVE erase_range(_, _, _, _)
erase_range(h, s, first, last) ==
    IF first = last THEN [heap |-> h, s |-> s, pos |-> first]
    ELSE LET r == erase(h, s, first) IN erase_range(r.heap, r.s, r.pos, last)

\* ------------------------------------------------------------ observations
\* size_type size() const noexcept
size(s) == s.element_count

\* bool empty() const noexcept
empty(s) == s.element_count = 0

\* addresses met by following forward[i] from node a (a excluded)
RECURSIVE chain(_, _, _)
chain(h, a, i) ==
    LET nxt == h[a].forward[i] IN
    IF nxt = Null THEN << >> ELSE <<nxt>> \o chain(h, nxt, i)

\* for (auto it = begin(); it != end(); ++it): the nodes, then their values
Nodes0(h, s) == chain(h, s.head, 0)

Traversal(h, s) == [j \in 1..Len(Nodes0(h, s)) |-> h[Nodes0(h, s)[j]].value]

\* ------------------------------------------------------- heap numbering
ObjectOrder == <<"A", "B">>

\* the head and the level-0 chain of every constructed object, in order
RECURSIVE Reachable(_, _, _)
Reachable(h, sls, j) ==
    IF j > Len(ObjectOrder) THEN << >>
    ELSE LET s == sls[ObjectOrder[j]] IN
         (IF Constructed(s) THEN <<s.head>> \o chain(h, s.head, 0) ELSE << >>)
         \o Reachable(h, sls, j + 1)

\* the renaming of the addresses: reachable nodes first, the rest in old order
Renaming(h, sls) ==
    LET r == Reachable(h, sls, 1)
        in_r == {r[j] : j \in 1..Len(r)}
    IN [a \in Ptrs |->
          IF a = Null THEN Null
          ELSE IF a \in in_r THEN CHOOSE j \in 1..Len(r) : r[j] = a
          ELSE Len(r) + Cardinality({b \in Addrs \ in_r : b <= a})]

\* heap h, objects sls and result r under the renaming of their addresses
Renumbered(h, sls, r) ==
    LET p == Renaming(h, sls) IN
    [heap |-> [b \in Addrs |->
                 LET a == CHOOSE a \in Addrs : p[a] = b IN
                 IF IsFree(h, a) THEN FreeSlot
                 ELSE [value |-> h[a].value,
                       forward |-> [i \in DOMAIN h[a].forward |-> p[h[a].forward[i]]]]],
     sl |-> [c \in Containers |->
               [sls[c] EXCEPT !.head = p[@], !.tail = p[@]]],
     ret |-> [r EXCEPT !.pos = p[@], !.pos2 = p[@]]]

\* the state after an operation that leaves heap h, objects sls, result r
Commit(h, sls, r) ==
    LET n == Renumbered(h, sls, r) IN
    /\ heap' = n.heap
    /\ sl' = n.sl
    /\ ret' = n.ret
    /\ held' = IF held \in Addrs /\ ~IsFree(h, held)
               THEN Renaming(h, sls)[held]
               ELSE IF held = Null THEN Null ELSE Stale

\* ------------------------------------------------------------------ actions
\* objects whose lifetime begins and ends during the run; "A" lives throughout
Scoped == {"B"}

\* positions a caller can hold: end(), or a node linked in a live container
LiveNodes ==
    UNION {{Nodes0(heap, sl[c])[j] : j \in 1..Len(Nodes0(heap, sl[c]))} :
           c \in {d \in Containers : Constructed(sl[d])}}

\* first is a position of c, last is first or a later position of c, or end()
ValidRanges(c) ==
    IF ~Constructed(sl[c]) THEN {}
    ELSE LET ns == Nodes0(heap, sl[c]) \o <<Null>> IN
         {<<ns[p[1]], ns[p[2]]>> :
            p \in {q \in (1..Len(ns)) \X (1..Len(ns)) : q[1] <= q[2]}}

\* number of elements a copy of c inserts
CopyLen(c) == IF Constructed(sl[c]) THEN Len(Nodes0(heap, sl[c])) ELSE 0

\* input sequences of the range forms
SeqsUpTo(S, n) == UNION {[1..m -> S] : m \in 0..n}

Insert(c, value, k, alloc_ok) ==
    /\ Constructed(sl[c])
    /\ LET r == insert(heap, sl[c], value, k, alloc_ok) IN
       Commit(r.heap, [sl EXCEPT ![c] = r.s],
              Ret(IF r.threw THEN "insert_threw" ELSE "insert", c, value, r.pos, Null, r.flag, 0))

InsertRange(c, values, ks, fail) ==
    /\ Constructed(sl[c])
    /\ LET r == insert_range(heap, sl[c], values, ks, fail) IN
       Commit(r.heap, [sl EXCEPT ![c] = r.s],
              Ret(IF r.threw THEN "insert_range_threw" ELSE "insert_range", c, values, Null, Null, FALSE, 0))

ErasePos(c, pos) ==
    /\ Constructed(sl[c])
    /\ LET r == erase(heap, sl[c], pos) IN
       Commit(r.heap, [sl EXCEPT ![c] = r.s],
              Ret("erase_pos", c, pos, r.pos, Null, r.erased, 0))

EraseValue(c, value) ==
    /\ Constructed(sl[c])
    /\ LET r == erase_value(heap, sl[c], value) IN
       Commit(r.heap, [sl EXCEPT ![c] = r.s],
              Ret("erase_value", c, value, Null, Null, FALSE, r.n))

EraseRange(c, first, last) ==
    /\ Constructed(sl[c])
    /\ LET r == erase_range(heap, sl[c], first, last) IN
       Commit(r.heap, [sl EXCEPT ![c] = r.s],
              Ret("erase_range", c, <<first, last>>, r.pos, Null, FALSE, 0))

\* clear(); n records how many elements the object held when it was called
Clear(c) ==
    /\ Constructed(sl[c])
    /\ LET r == clear(heap, sl[c]) IN
       Commit(r.heap, [sl EXCEPT ![c] = r.s],
              Ret("clear", c, 0, Null, Null, FALSE, Len(Nodes0(heap, sl[c]))))

\* find(value) and count(value)
Find(c, value) ==
    /\ Constructed(sl[c])
    /\ ret' = Ret("find", c, value, find(heap, sl[c], value), Null, FALSE,
                  count(heap, sl[c], value))
    /\ UNCHANGED <<heap, sl, held>>

LowerBound(c, value) ==
    /\ Constructed(sl[c])
    /\ ret' = Ret("lower_bound", c, value, lower_bound(heap, sl[c], value), Null, FALSE, 0)
    /\ UNCHANGED <<heap, sl, held>>

UpperBound(c, value) ==
    /\ Constructed(sl[c])
    /\ ret' = Ret("upper_bound", c, value, upper_bound(heap, sl[c], value), Null, FALSE, 0)
    /\ UNCHANGED <<heap, sl, held>>

EqualRange(c, value) ==
    /\ Constructed(sl[c])
    /\ LET r == equal_range(heap, sl[c], value) IN
       ret' = Ret("equal_range", c, value, r[1], r[2], FALSE, 0)
    /\ UNCHANGED <<heap, sl, held>>

\* The constructors run when the arena has room for what they allocate: a
\* head allocation that fails creates no object, and a noexcept move whose
\* new Node(...) fails ends the process.
Construct(c, f) ==
    /\ c \in Scoped /\ ~Constructed(sl[c])
    /\ FreeAddrs(heap) # {}
    /\ LET r == construct(heap, f) IN
       Commit(r.heap, [sl EXCEPT ![c] = r.s],
              Ret("construct", c, f, Null, Null, FALSE, 0))

RangeConstruct(c, f, values, ks, fail) ==
    /\ c \in Scoped /\ ~Constructed(sl[c])
    /\ FreeAddrs(heap) # {}
    /\ LET r == range_construct(heap, f, values, ks, fail) IN
       Commit(r.heap, [sl EXCEPT ![c] = r.s],
              Ret(IF r.threw THEN "range_construct_threw" ELSE "range_construct", c, values, Null, Null, FALSE, 0))

\* explored when the arena has room for the head and every node of the copy
CopyConstruct(c, o, ks) ==
    /\ c \in Scoped /\ ~Constructed(sl[c]) /\ Constructed(sl[o])
    /\ Cardinality(FreeAddrs(heap)) > Len(Nodes0(heap, sl[o]))
    /\ LET r == copy_construct(heap, sl[o], ks, 0) IN
       Commit(r.heap, [sl EXCEPT ![c] = r.s],
              Ret("copy_construct", c, o, Null, Null, FALSE, 0))

MoveConstruct(c, o) ==
    /\ c \in Scoped /\ ~Constructed(sl[c]) /\ Constructed(sl[o])
    /\ FreeAddrs(heap) # {}
    /\ LET r == move_construct(heap, sl[o]) IN
       Commit(r.heap, [sl EXCEPT ![c] = r.s, ![o] = r.other],
              Ret("move_construct", c, o, Null, Null, FALSE, 0))

Destroy(c) ==
    /\ c \in Scoped /\ Constructed(sl[c])
    /\ LET r == destroy(heap, sl[c]) IN
       Commit(r.heap, [sl EXCEPT ![c] = r.s],
              Ret("destroy", c, 0, Null, Null, FALSE, 0))

CopyAssign(c, o, ks, fail) ==
    /\ Constructed(sl[c]) /\ Constructed(sl[o])
    /\ IF c = o
       THEN /\ UNCHANGED <<heap, sl, held>>
            /\ ret' = Ret("copy_assign", c, o, Null, Null, FALSE, 0)
       ELSE LET r == copy_assign(heap, sl[c], sl[o], ks, fail) IN
            Commit(r.heap, [sl EXCEPT ![c] = r.s],
                   Ret(IF r.threw THEN "copy_assign_threw" ELSE "copy_assign", c, o, Null, Null, FALSE, 0))

MoveAssign(c, o) ==
    /\ Constructed(sl[c]) /\ Constructed(sl[o])
    /\ IF c = o
       THEN /\ UNCHANGED <<heap, sl, held>>
            /\ ret' = Ret("move_assign", c, o, Null, Null, FALSE, 0)
       ELSE LET r == move_assign(heap, sl[c], sl[o]) IN
            Commit(r.heap, [sl EXCEPT ![c] = r.s, ![o] = r.other],
                   Ret("move_assign", c, o, Null, Null, FALSE, 0))

\* swap without swap(element_count, other.element_count)
swap_keeps_count(s, other) ==
    [s |-> [other EXCEPT !.element_count = s.element_count],
     other |-> [s EXCEPT !.element_count = other.element_count]]

\* void swap(skip_list& other) noexcept: this object and other afterwards
swap(s, other) == [s |-> other, other |-> s]

Swap(c, o) ==
    /\ Constructed(sl[c]) /\ Constructed(sl[o])
    /\ Commit(heap, [sl EXCEPT ![c] = swap(sl[c], sl[o]).s, ![o] = swap(sl[c], sl[o]).other],
              Ret("swap", c, o, Null, Null, FALSE, 0))

\* it = begin(), advanced j - 1 times, and kept by the caller
Hold(c, j) ==
    /\ Constructed(sl[c])
    /\ j \in 1..Len(Nodes0(heap, sl[c]))
    /\ held' = Nodes0(heap, sl[c])[j]
    /\ ret' = Ret("begin", c, j, Nodes0(heap, sl[c])[j], Null, FALSE, 0)
    /\ UNCHANGED <<heap, sl>>

\* insert(value) whose new Node(...) is given the storage of the node the
\* kept iterator referred to: the iterator equals the new position
InsertReusing(c, value, k) ==
    /\ Constructed(sl[c])
    /\ held = Stale
    /\ LET r == insert(heap, sl[c], value, k, TRUE) IN
       /\ r.flag
       /\ LET n == Renumbered(r.heap, [sl EXCEPT ![c] = r.s],
                              Ret("insert", c, value, r.pos, Null, r.flag, 0)) IN
          /\ heap' = n.heap
          /\ sl' = n.sl
          /\ ret' = n.ret
          /\ held' = n.ret.pos

\* erase(pos) with the kept iterator after its node was deleted.  Line 412
\* reads node_to_delete->forward[0] and the descent reads
\* node_to_delete->value out of the deleted node: undefined behaviour.  The
\* reads yield some values, after which line 426 finds current different
\* from node_to_delete and returns end() (terminates = FALSE), or the read
\* through the dead vector faults and the process ends (terminates = TRUE).
EraseStale(c, terminates) ==
    /\ Constructed(sl[c])
    /\ held = Stale
    /\ IF terminates
       THEN /\ heap' = [a \in Addrs |-> FreeSlot]
            /\ sl' = [d \in Containers |-> NoObject]
            /\ ret' = Ret("terminated", c, Stale, Null, Null, FALSE, 0)
            /\ held' = Null
       ELSE /\ ret' = Ret("erase_pos", c, Stale, Null, Null, FALSE, 0)
            /\ UNCHANGED <<heap, sl, held>>

Init ==
    \E f \in Relations :
      LET r == construct([a \in Addrs |-> FreeSlot], f) IN
      /\ heap = r.heap
      /\ sl = [c \in Containers |-> IF c = "A" THEN r.s ELSE NoObject]
      /\ ret = NoRet
      /\ held = Null

\* One container object and the operations on its elements.
Next ==
    \/ \E v \in Values, k \in Draws, ok \in BOOLEAN : Insert("A", v, k, ok)
    \/ \E pos \in LiveNodes \cup {Null} : ErasePos("A", pos)
    \/ \E v \in Values : EraseValue("A", v)
    \/ \E r \in ValidRanges("A") : EraseRange("A", r[1], r[2])
    \/ Clear("A")
    \/ \E v \in Values : Find("A", v)
    \/ \E v \in Values : LowerBound("A", v)
    \/ \E v \in Values : UpperBound("A", v)
    \/ \E v \in Values : EqualRange("A", v)

Spec == Init /\ [][Next]_vars

\* The forms that take a sequence of values, building the scoped object from
\* nothing: the range / initializer-list constructor, and insert(first, last)
\* on an object that holds no element.
NextRange ==
    \/ \E f \in Relations, values \in SeqsUpTo(Values, MaxLen) :
         \E ks \in [1..Len(values) -> Draws], fail \in 0..Len(values) :
           RangeConstruct("B", f, values, ks, fail)
    \/ \E values \in SeqsUpTo(Values, MaxLen) :
         \E ks \in [1..Len(values) -> Draws], fail \in 0..Len(values) :
           /\ Constructed(sl["B"])
           /\ sl["B"].element_count = 0
           /\ InsertRange("B", values, ks, fail)
    \/ \E f \in Relations : Construct("B", f)
    \/ Clear("B")
    \/ Destroy("B")

SpecRange == Init /\ [][NextRange]_vars

\* Two container objects: construction, destruction, assignment and swap,
\* with the single-element operations on both.  To keep the pairs of objects
\* countable, the values are 1..MaxObjVal here, the level generator draws a
\* level-0 or a full-height node, and an allocation fails only when the
\* arena is full.
ObjValues == 1..MaxObjVal

ObjDraws == {0, MAX_LEVEL + 1}

NextObjects ==
    \/ \E c \in Containers, v \in ObjValues, k \in ObjDraws : Insert(c, v, k, TRUE)
    \/ \E c \in Containers, pos \in LiveNodes \cup {Null} : ErasePos(c, pos)
    \/ \E c \in Containers, v \in ObjValues : EraseValue(c, v)
    \/ \E c \in Containers : \E r \in ValidRanges(c) : EraseRange(c, r[1], r[2])
    \/ \E c \in Containers : Clear(c)
    \/ \E c \in Containers, f \in Relations : Construct(c, f)
    \/ \E c \in Containers, o \in Containers :
         \E ks \in [1..CopyLen(o) -> ObjDraws] : CopyConstruct(c, o, ks)
    \/ \E c \in Containers, o \in Containers : MoveConstruct(c, o)
    \/ \E c \in Containers : Destroy(c)
    \/ \E c \in Containers, o \in Containers :
         \E ks \in [1..CopyLen(o) -> ObjDraws] : CopyAssign(c, o, ks, 0)
    \/ \E c \in Containers, o \in Containers : MoveAssign(c, o)
    \/ \E c \in Containers, o \in Containers : Swap(c, o)

SpecObjects == Init /\ [][NextObjects]_vars

\* Two container objects and an iterator the caller keeps across the
\* operations: it may refer to an element of either object, and to a node
\* that has been deleted since.
NextHandles ==
    \/ \E c \in Containers, v \in ObjValues, k \in ObjDraws : Insert(c, v, k, TRUE)
    \/ \E c \in Containers, v \in ObjValues, k \in ObjDraws : InsertReusing(c, v, k)
    \/ \E c \in Containers, pos \in LiveNodes \cup {Null} : ErasePos(c, pos)
    \/ \E c \in Containers, terminates \in BOOLEAN : EraseStale(c, terminates)
    \/ \E c \in Containers, v \in ObjValues : EraseValue(c, v)
    \/ \E c \in Containers : Clear(c)
    \/ \E c \in Containers, j \in 1..MaxObjVal : Hold(c, j)
    \/ \E f \in Relations : Constructed(sl["A"]) /\ Construct("B", f)

SpecHandles == Init /\ [][NextHandles]_vars

\* =============================================================== properties
Trav(c) == Traversal(heap, sl[c])

Nodes(c) == Nodes0(heap, sl[c])

Live == {c \in Containers : Constructed(sl[c])}

StrictlyAscending(f, seq) ==
    \A j \in 1..(Len(seq) - 1) : Compare(f, seq[j], seq[j + 1])

\* the value v is equal, under the relation of c, to an element of c
Present(c, v) ==
    \E j \in 1..Len(Trav(c)) :
      ~Compare(sl[c].comp, v, Trav(c)[j]) /\ ~Compare(sl[c].comp, Trav(c)[j], v)

\* C1: after any sequence of insert, erase and clear the level-0 traversal
\* is strictly ascending under the ordering relation of the container; with
\* the reversing relation it is strictly descending in the natural order.
C1_SortedTraversal ==
    \A c \in Live :
      /\ StrictlyAscending(sl[c].comp, Trav(c))
      /\ sl[c].comp = "greater" =>
           \A j \in 1..(Len(Trav(c)) - 1) : Trav(c)[j] > Trav(c)[j + 1]

\* an erase has left two elements in a container with the reversing relation
C1_Witness ==
    /\ ret.op = "erase_pos" /\ ret.flag
    /\ sl["A"].comp = "greater"
    /\ Len(Trav("A")) = 2

\* the sequence seq with v put in at its place under the relation f
InsertedInOrder(seq, v, f) ==
    LET Before(x) == Compare(f, x, v)
        After(x) == ~Compare(f, x, v)
    IN SelectSeq(seq, Before) \o <<v>> \o SelectSeq(seq, After)

\* the sequence seq without its j-th element
Removed(seq, j) ==
    [i \in 1..(Len(seq) - 1) |-> IF i < j THEN seq[i] ELSE seq[i + 1]]

\* the index of the element of c that is equal to v
IndexOf(c, v) ==
    CHOOSE j \in 1..Len(Trav(c)) :
      ~Compare(sl[c].comp, v, Trav(c)[j]) /\ ~Compare(sl[c].comp, Trav(c)[j], v)

\* C2: insert(v) when an element equal to v is present returns (position of
\* that element, false) and changes nothing: size, every link, current_level
\* and tail stay, and there is still one node equal to v.
C2_DuplicateInsertRejected ==
    [][(ret'.op \in {"insert", "insert_threw"} /\ Present(ret'.c, ret'.arg)) =>
         /\ ret'.op = "insert"
         /\ ret'.flag = FALSE
         /\ ret'.pos = Nodes(ret'.c)[IndexOf(ret'.c, ret'.arg)]
         /\ heap' = heap
         /\ sl' = sl
         /\ Cardinality({j \in 1..Len(Traversal(heap', sl'[ret'.c])) :
                           Traversal(heap', sl'[ret'.c])[j] = ret'.arg}) = 1
      ]_vars

\* insert of a present value has returned the existing middle element
C2_Witness ==
    /\ ret.op = "insert" /\ ~ret.flag
    /\ Len(Trav(ret.c)) = 3
    /\ ret.pos = Nodes(ret.c)[2]
    /\ heap[ret.pos].value = ret.arg

\* C4: insert(v) when no element equal to v is present returns (p, true)
\* with p a new node holding v; size is one greater, the traversal is the
\* previous one with v at its sorted position, whatever height was drawn.
C4_InsertNew ==
    [][(ret'.op = "insert" /\ ~Present(ret'.c, ret'.arg)) =>
         LET c == ret'.c
             v == ret'.arg
             t == InsertedInOrder(Trav(c), v, sl[c].comp)
             j == CHOOSE j \in 1..Len(t) : t[j] = v
         IN /\ ret'.flag = TRUE
            /\ Traversal(heap', sl'[c]) = t
            /\ ret'.pos = Nodes0(heap', sl'[c])[j]
            /\ heap'[ret'.pos].value = v
            /\ size(sl'[c]) = size(sl[c]) + 1
            /\ Cardinality(FreeAddrs(heap')) = Cardinality(FreeAddrs(heap)) - 1
            /\ \A x \in 1..Len(Trav(c)) :
                 \E y \in 1..Len(t) : Traversal(heap', sl'[c])[y] = Trav(c)[x]
      ]_vars

\* a full-height node has been inserted between two elements
C4_Witness ==
    /\ ret.op = "insert" /\ ret.flag
    /\ Len(Trav(ret.c)) = 3
    /\ ret.pos = Nodes(ret.c)[2]
    /\ DOMAIN heap[ret.pos].forward = 0..MAX_LEVEL

\* the distinct values of a sequence, in the order of the relation f
SortedDistinct(values, f) ==
    LET S == {values[j] : j \in DOMAIN values} IN
    CHOOSE q \in [1..Cardinality(S) -> S] : StrictlyAscending(f, q)

\* C5: inserting the values of a finite sequence into an empty container
\* (range constructor, initializer list, insert(first, last)) and traversing
\* yields the distinct values of the sequence in sorted order, whatever the
\* order of the sequence and the heights drawn.
C5_RoundTrip ==
    [][(/\ ret'.op \in {"range_construct", "insert_range"}
        /\ ret'.op = "insert_range" => Len(Trav(ret'.c)) = 0) =>
         /\ Traversal(heap', sl'[ret'.c]) =
              SortedDistinct(ret'.arg, sl'[ret'.c].comp)
         /\ size(sl'[ret'.c]) = Cardinality({ret'.arg[j] : j \in DOMAIN ret'.arg})
      ]_vars

\* an object has been built from a descending pair and is ascending
C5_Witness ==
    /\ ret.op = "range_construct"
    /\ Len(ret.arg) = 2 /\ ret.arg[1] > ret.arg[2]
    /\ sl[ret.c].comp = "less"
    /\ Trav(ret.c) = <<ret.arg[2], ret.arg[1]>>

\* C6: erase(pos) for a position of a live element x removes exactly x (size
\* one less, the others in their order) and returns the position of the
\* element that followed x, or end() if x was last; erase(end()) returns
\* end() and changes nothing.
C6_ErasePosition ==
    [][ret'.op = "erase_pos" =>
         LET c == ret'.c
             pos == ret'.arg
         IN IF pos = Null
            THEN ret'.pos = Null /\ heap' = heap /\ sl' = sl
            ELSE (\E j \in 1..Len(Nodes(c)) : Nodes(c)[j] = pos) =>
                   LET j == CHOOSE j \in 1..Len(Nodes(c)) : Nodes(c)[j] = pos IN
                   /\ ret'.flag
                   /\ Traversal(heap', sl'[c]) = Removed(Trav(c), j)
                   /\ size(sl'[c]) = size(sl[c]) - 1
                   /\ IF j = Len(Nodes(c))
                      THEN ret'.pos = Null
                      ELSE /\ ret'.pos = Nodes0(heap', sl'[c])[j]
                           /\ heap'[ret'.pos].value = Trav(c)[j + 1]
      ]_vars

\* the middle one of three elements has been erased; the third is returned
C6_Witness ==
    /\ ret.op = "erase_pos" /\ ret.flag
    /\ Len(Trav(ret.c)) = 2
    /\ ret.pos = Nodes(ret.c)[2]

\* C7: erase(value) returns 1 and removes the one element equal to value
\* when it is present, returns 0 and changes nothing when it is absent; the
\* other elements keep their order and size changes by the returned count.
C7_EraseValue ==
    [][ret'.op = "erase_value" =>
         LET c == ret'.c
             v == ret'.arg
         IN IF Present(c, v)
            THEN /\ ret'.n = 1
                 /\ Traversal(heap', sl'[c]) = Removed(Trav(c), IndexOf(c, v))
                 /\ size(sl'[c]) = size(sl[c]) - 1
            ELSE /\ ret'.n = 0
                 /\ heap' = heap
                 /\ sl' = sl
      ]_vars

\* the middle one of three elements has been erased by its value
C7_Witness ==
    /\ ret.op = "erase_value" /\ ret.n = 1
    /\ Len(Trav(ret.c)) = 2
    /\ Compare(sl[ret.c].comp, Trav(ret.c)[1], ret.arg)
    /\ Compare(sl[ret.c].comp, ret.arg, Trav(ret.c)[2])

\* the position of the first element of c, in traversal order, that
\* satisfies P, or end()
FirstPosition(c, P(_)) ==
    LET I == {j \in 1..Len(Nodes(c)) : P(Trav(c)[j])} IN
    IF I = {} THEN Null
    ELSE Nodes(c)[CHOOSE j \in I : \A i \in I : j <= i]

\* C8: in every reachable state and for every value v, find(v) is the
\* position of the element equal to v under the relation, or end() when
\* there is none, and count(v) is 1 in the first case and 0 in the second;
\* for the default and for the reversing relation.
C8_FindAndCount ==
    \A c \in Live : \A v \in Values :
      LET Equal(x) == ~Compare(sl[c].comp, v, x) /\ ~Compare(sl[c].comp, x, v)
          expected == FirstPosition(c, Equal)
      IN /\ find(heap, sl[c], v) = expected
         /\ count(heap, sl[c], v) = IF expected = Null THEN 0 ELSE 1
         /\ (expected # Null) <=> Present(c, v)
         /\ (ret.op = "find" /\ ret.c = c /\ ret.arg = v) =>
              (ret.pos = expected /\ ret.n = IF ret.pos = Null THEN 0 ELSE 1)

\* find has returned the middle element under the reversing relation
C8_Witness ==
    /\ ret.op = "find" /\ ret.n = 1
    /\ sl[ret.c].comp = "greater"
    /\ Len(Trav(ret.c)) = 3
    /\ ret.pos = Nodes(ret.c)[2]

\* C9: in every reachable state and for every value v, lower_bound(v) is
\* the position of the first element not less than v and upper_bound(v) the
\* position of the first element greater than v; each is end() when there
\* is no such element.
C9_Bounds ==
    \A c \in Live : \A v \in Values :
      LET NotLess(x) == ~Compare(sl[c].comp, x, v)
          Greater(x) == Compare(sl[c].comp, v, x)
      IN /\ lower_bound(heap, sl[c], v) = FirstPosition(c, NotLess)
         /\ upper_bound(heap, sl[c], v) = FirstPosition(c, Greater)
         /\ (ret.op = "lower_bound" /\ ret.c = c /\ ret.arg = v) =>
              ret.pos = FirstPosition(c, NotLess)
         /\ (ret.op = "upper_bound" /\ ret.c = c /\ ret.arg = v) =>
              ret.pos = FirstPosition(c, Greater)

\* upper_bound of the first of three elements has returned the second
C9_Witness ==
    /\ ret.op = "upper_bound"
    /\ Len(Trav(ret.c)) = 3
    /\ ret.arg = Trav(ret.c)[1]
    /\ ret.pos = Nodes(ret.c)[2]

\* the index in the traversal of c of a position, end() being past the last
IndexOfPosition(c, pos) ==
    IF pos = Null THEN Len(Nodes(c)) + 1
    ELSE CHOOSE j \in 1..Len(Nodes(c)) : Nodes(c)[j] = pos

\* C10: equal_range(v) is (lb, next(lb)) when lb = lower_bound(v) is not
\* end() and its element is equal to v, and (lb, lb) otherwise; the range
\* holds the one element equal to v when present and none when absent, and
\* is (lower_bound(v), upper_bound(v)).
C10_EqualRange ==
    \A c \in Live : \A v \in Values :
      LET lb == lower_bound(heap, sl[c], v)
          er == equal_range(heap, sl[c], v)
          hit == lb # Null /\ ~Compare(sl[c].comp, v, heap[lb].value)
                           /\ ~Compare(sl[c].comp, heap[lb].value, v)
          inside == {Trav(c)[j] : j \in IndexOfPosition(c, er[1])..
                                        (IndexOfPosition(c, er[2]) - 1)}
      IN /\ er = IF hit THEN <<lb, heap[lb].forward[0]>> ELSE <<lb, lb>>
         /\ er = <<lb, upper_bound(heap, sl[c], v)>>
         /\ inside = IF Present(c, v) THEN {v} ELSE {}
         /\ (ret.op = "equal_range" /\ ret.c = c /\ ret.arg = v) =>
              <<ret.pos, ret.pos2>> = er

\* equal_range of the first of three elements: (first, second)
C10_Witness ==
    /\ ret.op = "equal_range"
    /\ Len(Trav(ret.c)) = 3
    /\ ret.pos = Nodes(ret.c)[1]
    /\ ret.pos2 = Nodes(ret.c)[2]
    /\ ret.arg = Trav(ret.c)[1]

\* C3: after every public operation size() is the number of nodes a level-0
\* traversal from the head reaches, and empty() holds exactly when it is 0.
C3_SizeIsTraversalLength ==
    \A c \in Live :
      /\ size(sl[c]) = Len(Nodes(c))
      /\ empty(sl[c]) <=> Len(Nodes(c)) = 0

\* a move assignment has transferred two elements and emptied its source
C3_Witness ==
    /\ ret.op = "move_assign" /\ ret.c # ret.arg
    /\ size(sl[ret.c]) = 2 /\ Len(Nodes(ret.c)) = 2
    /\ empty(sl[ret.arg]) /\ Len(Nodes(ret.arg)) = 0

\* the index in the sequence seq of x, 0 when x is not in it
Index(seq, x) ==
    IF \E j \in 1..Len(seq) : seq[j] = x
    THEN CHOOSE j \in 1..Len(seq) : seq[j] = x
    ELSE 0

\* the head of object s and every node linked from it at some level
Owned(h, s) ==
    {s.head} \cup UNION {{chain(h, s.head, i)[j] : j \in 1..Len(chain(h, s.head, i))} :
                           i \in Levels}

\* what object s is, whatever the addresses of its nodes: its data members,
\* its elements in order, and the chain of every level, each node given by
\* its place in the level-0 traversal
View(h, s) ==
    LET ns == Nodes0(h, s) IN
    [current_level |-> s.current_level,
     element_count |-> s.element_count,
     comp |-> s.comp,
     tail |-> Index(ns, s.tail),
     traversal |-> Traversal(h, s),
     heights |-> [j \in 1..Len(ns) |-> Cardinality(DOMAIN h[ns[j]].forward) - 1],
     links |-> [i \in Levels |->
                  [j \in 1..Len(chain(h, s.head, i)) |-> Index(ns, chain(h, s.head, i)[j])]]]

ElementOps ==
    {"insert", "insert_threw", "erase_pos", "erase_value", "erase_range", "clear"}

\* C11: after copy-constructing or copy-assigning B from A, B's traversal
\* and size are A's and A is unchanged; B shares no node with A, and every
\* insert, erase or clear on one object leaves the other object as it was.
C11_CopyIndependent ==
    [][/\ (ret'.op \in {"copy_construct", "copy_assign"}) =>
            LET c == ret'.c
                o == ret'.arg
            IN /\ Traversal(heap', sl'[c]) = Traversal(heap, sl[o])
               /\ size(sl'[c]) = size(sl[o])
               /\ sl'[c].comp = sl[o].comp
               /\ View(heap', sl'[o]) = View(heap, sl[o])
               /\ c # o => Owned(heap', sl'[c]) \cap Owned(heap', sl'[o]) = {}
       /\ (ret'.op \in ElementOps) =>
            \A d \in Containers \ {ret'.c} :
              Constructed(sl[d]) =>
                /\ View(heap', sl'[d]) = View(heap, sl[d])
                /\ Owned(heap', sl'[d]) \cap Owned(heap', sl'[ret'.c]) = {}
      ]_vars

\* a copy assignment has replaced the elements of an object by two others'
C11_Witness ==
    /\ ret.op = "copy_assign" /\ ret.c # ret.arg
    /\ Trav(ret.c) = Trav(ret.arg)
    /\ Len(Trav(ret.c)) = 2
    /\ Owned(heap, sl[ret.c]) \cap Owned(heap, sl[ret.arg]) = {}

\* object s is empty and valid: no element, begin() = end(), a head whose
\* MAX_LEVEL + 1 slots are all null, current_level 0 and tail null
EmptyState(h, s) ==
    /\ size(s) = 0 /\ empty(s)
    /\ Nodes0(h, s) = << >>
    /\ ~IsFree(h, s.head)
    /\ h[s.head].forward = [i \in Levels |-> Null]
    /\ s.current_level = 0
    /\ s.tail = Null

\* C12: after move-constructing or move-assigning B from A (A # B), B is
\* what A was (A's former elements in order; what B held is gone) and A is
\* empty and valid with a head of its own; an insert into an empty object
\* then succeeds and leaves the other object as it was.
C12_MoveLeavesSourceEmpty ==
    [][/\ (ret'.op \in {"move_construct", "move_assign"} /\ ret'.c # ret'.arg) =>
            LET c == ret'.c
                o == ret'.arg
            IN /\ Traversal(heap', sl'[c]) = Traversal(heap, sl[o])
               /\ View(heap', sl'[c]) = View(heap, sl[o])
               /\ EmptyState(heap', sl'[o])
               /\ sl'[o].head # sl'[c].head
               /\ Owned(heap', sl'[o]) \cap Owned(heap', sl'[c]) = {}
               /\ Cardinality(FreeAddrs(heap')) =
                    Cardinality(FreeAddrs(heap)) +
                      (IF ret'.op = "move_assign" THEN Len(Nodes(c)) ELSE -1)
       /\ (ret'.op = "insert" /\ EmptyState(heap, sl[ret'.c])) =>
            /\ ret'.flag
            /\ Traversal(heap', sl'[ret'.c]) = <<ret'.arg>>
            /\ \A d \in Containers \ {ret'.c} :
                 Constructed(sl[d]) => View(heap', sl'[d]) = View(heap, sl[d])
      ]_vars

\* a move construction has taken two elements and left its source empty
C12_Witness ==
    /\ ret.op = "move_construct"
    /\ Len(Trav(ret.c)) = 2
    /\ EmptyState(heap, sl[ret.arg])
    /\ sl[ret.arg].head # sl[ret.c].head

\* C13: clear() from any reachable state destroys every node reachable at
\* level 0 and leaves the empty state: size 0, empty(), begin() = end(),
\* every head slot null, current_level 0, tail null; the object is then in
\* the state of a freshly constructed one with the same relation.
C13_ClearResets ==
    [][ret'.op = "clear" =>
         LET c == ret'.c
             fresh == construct([a \in Addrs |-> FreeSlot], sl[c].comp)
         IN /\ EmptyState(heap', sl'[c])
            /\ Cardinality(FreeAddrs(heap')) =
                 Cardinality(FreeAddrs(heap)) + Len(Nodes(c))
            /\ {a \in Addrs : ~IsFree(heap', a)} = {sl'[c].head}
            /\ heap' = fresh.heap
            /\ sl'[c] = fresh.s
      ]_vars

\* three elements under the reversing relation have been cleared
C13_Witness ==
    /\ ret.op = "clear" /\ ret.n = 3
    /\ sl[ret.c].comp = "greater"
    /\ EmptyState(heap, sl[ret.c])

\* the nodes linked at level 0 in object c
Linked(c) == {Nodes(c)[j] : j \in 1..Len(Nodes(c))}

\* C14 as stated: erase(pos) with a non-end position that refers to no node
\* linked in this container, a stale handle (to a deleted node) or a
\* foreign one (to a node of another container), returns end() and changes
\* no link, current_level, element_count or tail.
C14_StaleOrForeignDetected ==
    [][(/\ ret'.op \in {"erase_pos", "terminated"}
        /\ ret'.arg # Null
        /\ ret'.arg \notin Linked(ret'.c)) =>
         /\ ret'.op = "erase_pos"
         /\ ret'.pos = Null
         /\ heap' = heap
         /\ sl' = sl
      ]_vars

\* C14, amended: erase(pos) with a position that refers to a live node of
\* another container returns end() and changes neither container: no link,
\* current_level, element_count or tail.
C14_ForeignDetected ==
    [][(/\ ret'.op = "erase_pos"
        /\ ret'.arg \in Addrs
        /\ ret'.arg \notin Linked(ret'.c)) =>
         /\ \E d \in Containers \ {ret'.c} :
              Constructed(sl[d]) /\ ret'.arg \in Linked(d)
         /\ ret'.pos = Null
         /\ ~ret'.flag
         /\ heap' = heap
         /\ sl' = sl
      ]_vars

\* erase was given the position of an element of the other container whose
\* value this container holds too, and returned end()
C14_Witness ==
    /\ ret.op = "erase_pos" /\ ~ret.flag /\ ret.pos = Null
    /\ ret.arg \in Addrs
    /\ \E d \in Live \ {ret.c} :
         /\ ret.arg \in Linked(d)
         /\ Present(ret.c, heap[ret.arg].value)
         /\ Len(Trav(ret.c)) = 2

\* C15: when the allocation of the new node fails during insert, the
\* failure propagates and nothing is partially linked: no successor link of
\* the head or of any node is modified, no node is created, and
\* element_count and tail (and the elements) are as before.
C15_FailedInsertLinksNothing ==
    [][ret'.op = "insert_threw" =>
         LET c == ret'.c IN
         /\ ~Present(c, ret'.arg)
         /\ heap' = heap
         /\ sl'[c].element_count = sl[c].element_count
         /\ sl'[c].tail = sl[c].tail
         /\ sl'[c].head = sl[c].head
         /\ Traversal(heap', sl'[c]) = Trav(c)
         /\ \A i \in Levels : chain(heap', sl'[c].head, i) = chain(heap, sl[c].head, i)
      ]_vars

\* an insert of a value between two elements has failed to allocate
C15_Witness ==
    /\ ret.op = "insert_threw"
    /\ Len(Trav(ret.c)) = 2
    /\ Compare(sl[ret.c].comp, Trav(ret.c)[1], ret.arg)
    /\ Compare(sl[ret.c].comp, ret.arg, Trav(ret.c)[2])
    /\ FreeAddrs(heap) # {}

\* the sequence seq without its elements i .. j - 1
Without(seq, i, j) ==
    [x \in 1..(Len(seq) - (j - i)) |-> IF x < i THEN seq[x] ELSE seq[x + (j - i)]]

\* C16: erase(first, last), for positions of this container with last
\* reachable from first at level 0 (or last = end()), ends, returns the
\* position last, removes exactly the elements of [first, last) and leaves
\* the others in their order; with first = last it removes nothing.
C16_EraseRange ==
    [][ret'.op = "erase_range" =>
         LET c == ret'.c
             first == ret'.arg[1]
             last == ret'.arg[2]
             i == IndexOfPosition(c, first)
             j == IndexOfPosition(c, last)
         IN /\ i <= j
            /\ Traversal(heap', sl'[c]) = Without(Trav(c), i, j)
            /\ size(sl'[c]) = size(sl[c]) - (j - i)
            /\ Cardinality(FreeAddrs(heap')) = Cardinality(FreeAddrs(heap)) + (j - i)
            /\ IF last = Null
               THEN ret'.pos = Null
               ELSE /\ ret'.pos = Nodes0(heap', sl'[c])[i]
                    /\ heap'[ret'.pos].value = heap[last].value
            /\ first = last => (heap' = heap /\ sl' = sl /\ ret'.pos = last)
      ]_vars

\* the first two of three elements have been erased; the third is returned
C16_Witness ==
    /\ ret.op = "erase_range"
    /\ ret.arg = <<2, 4>>
    /\ Len(Trav(ret.c)) = 1
    /\ ret.pos = Nodes(ret.c)[1]

\* the step erases the node the kept iterator refers to, or clears its container
ErasesHeld ==
    \/ ret'.op = "erase_pos" /\ ret'.flag /\ ret'.arg = held
    \/ /\ ret'.op = "erase_value" /\ ret'.n = 1
       /\ held \in Linked(ret'.c)
       /\ is_equal(sl[ret'.c].comp, ret'.arg, heap[held].value)
    \/ ret'.op = "clear" /\ held \in Linked(ret'.c)

\* C17: a position handle to an element x stays valid and keeps referring
\* to the same node holding x across insertions and erasures of elements
\* other than x; erasing x, or clearing its container, invalidates it.
C17_HandleStable ==
    [][(held \in Addrs /\ ret'.op # "begin") =>
         IF ErasesHeld
         THEN held' = Stale
         ELSE /\ held' \in Addrs
              /\ ~IsFree(heap', held')
              /\ heap'[held'].value = heap[held].value
              /\ DOMAIN heap'[held'].forward = DOMAIN heap[held].forward
              /\ \A d \in Containers :
                   (Constructed(sl[d]) /\ held \in Linked(d)) =>
                     /\ Constructed(sl'[d])
                     /\ Index(Nodes0(heap', sl'[d]), held') # 0
                     /\ Traversal(heap', sl'[d])[Index(Nodes0(heap', sl'[d]), held')]
                          = heap[held].value
      ]_vars

\* the element before the one the kept iterator refers to has been erased
C17_Witness ==
    /\ ret.op = "erase_pos" /\ ret.flag
    /\ held \in Linked(ret.c)
    /\ ret.pos = held
    /\ Len(Trav(ret.c)) = 1

\* the highest level at which the head of s has a successor, 0 when none
TopLevel(h, s) ==
    LET L == {i \in Levels : h[s.head].forward[i] # Null} IN
    IF L = {} THEN 0 ELSE CHOOSE i \in L : \A j \in L : j <= i

\* current_level is the highest level in use
LevelInvariant(h, s) == s.current_level = TopLevel(h, s)

\* the elements are in order, counted, and ended by tail
OrderInvariant(h, s) ==
    /\ StrictlyAscending(s.comp, Traversal(h, s))
    /\ s.element_count = Len(Nodes0(h, s))
    /\ s.tail = IF Nodes0(h, s) = << >> THEN Null
                ELSE Nodes0(h, s)[Len(Nodes0(h, s))]

C19_LevelIsTop ==
    \A c \in Live :
      /\ LevelInvariant(heap, sl[c])
      /\ \A i \in Levels : i > sl[c].current_level => heap[sl[c].head].forward[i] = Null

\* following forward[i] from node a ends at null within n steps, and every
\* node met is allocated and has a slot i
RECURSIVE EndsWithin(_, _, _, _)
EndsWithin(h, a, i, n) ==
    /\ a \in Addrs
    /\ ~IsFree(h, a)
    /\ i \in DOMAIN h[a].forward
    /\ \/ h[a].forward[i] = Null
       \/ n > 0 /\ EndsWithin(h, h[a].forward[i], i, n - 1)

\* the elements of sequence a are elements of sequence b, in the same order
RECURSIVE Subsequence(_, _)
Subsequence(a, b) ==
    IF a = << >> THEN TRUE
    ELSE IF b = << >> THEN FALSE
    ELSE IF Head(a) = Head(b) THEN Subsequence(Tail(a), Tail(b))
    ELSE Subsequence(a, Tail(b))

\* C20: after every public operation the chain from the head at every level
\* is null-terminated and acyclic, and for every level l > 0 it is an
\* order-preserving subsequence of the chain at level l - 1: a node linked
\* at a level is linked at every lower level.
C20_LevelsNested ==
    \A c \in Live :
      /\ \A l \in Levels : EndsWithin(heap, sl[c].head, l, MaxAddr)
      /\ \A l \in Levels \ {0} :
           Subsequence(chain(heap, sl[c].head, l), chain(heap, sl[c].head, l - 1))
      /\ \A l \in Levels :
           \A j \in 1..Len(chain(heap, sl[c].head, l)) :
             \A x \in 0..l : Index(chain(heap, sl[c].head, x), chain(heap, sl[c].head, l)[j]) # 0

\* three elements of heights 0, 1 and MAX_LEVEL: the chains of the levels
\* 0, 1 and 2 have three, two and one node
C20_Witness ==
    /\ ret.op = "insert" /\ ret.flag
    /\ Len(chain(heap, sl[ret.c].head, 0)) = 3
    /\ Len(chain(heap, sl[ret.c].head, 1)) = 2
    /\ Len(chain(heap, sl[ret.c].head, 2)) = 1
    /\ chain(heap, sl[ret.c].head, 1)[1] = chain(heap, sl[ret.c].head, 0)[1]
    /\ chain(heap, sl[ret.c].head, 1)[2] = chain(heap, sl[ret.c].head, 0)[3]

\* no successor slot of an allocated node holds the address of a freed node
NoDanglingLink(h) ==
    \A a \in Addrs :
      ~IsFree(h, a) =>
        \A i \in DOMAIN h[a].forward :
          h[a].forward[i] = Null \/ ~IsFree(h, h[a].forward[i])

\* the values of the nodes on the chain of level l of object s
LevelValues(h, s, l) ==
    [j \in 1..Len(chain(h, s.head, l)) |-> h[chain(h, s.head, l)[j]].value]

\* C21: after a successful erase(pos) the erased node is the successor of
\* neither the head nor any remaining node at any level: the unlink loop
\* has relinked every level at which it was linked, and no link to the
\* freed node remains.
C21_ErasedNodeUnlinked ==
    [][(ret'.op = "erase_pos" /\ ret'.flag) =>
         LET c == ret'.c
             x == heap[ret'.arg].value
             NotErased(v) == v # x
         IN /\ NoDanglingLink(heap')
            /\ \A l \in Levels : EndsWithin(heap', sl'[c].head, l, MaxAddr)
            /\ \A l \in Levels :
                 LevelValues(heap', sl'[c], l) =
                   SelectSeq(LevelValues(heap, sl[c], l), NotErased)
            /\ Cardinality(FreeAddrs(heap')) = Cardinality(FreeAddrs(heap)) + 1
            /\ \A a \in Addrs : ~IsFree(heap', a) => heap'[a].value # x
      ]_vars

\* the first of three elements has been erased; its successor is linked from
\* the head at the levels 0 and 1
C21_Witness ==
    /\ ret.op = "erase_pos" /\ ret.flag
    /\ Len(Trav(ret.c)) = 2
    /\ ret.pos = Nodes(ret.c)[1]
    /\ heap[sl[ret.c].head].forward[1] = ret.pos
    /\ sl[ret.c].current_level = 1

\* C22: after every public operation, tail is null if and only if the
\* container is empty; when it is not null it is the address of an allocated
\* node on the level-0 chain of this container whose level-0 successor is
\* null, the last element in order.
C22_TailIsLast ==
    \A c \in Live :
      LET s == sl[c]
      IN /\ (s.tail = Null) <=> (Nodes(c) = << >>)
         /\ (s.tail = Null) <=> (s.element_count = 0)
         /\ s.tail # Null =>
              /\ s.tail \in Addrs
              /\ ~IsFree(heap, s.tail)
              /\ s.tail # s.head
              /\ \E j \in 1..Len(Nodes(c)) : Nodes(c)[j] = s.tail
              /\ heap[s.tail].forward[0] = Null
              /\ \A d \in Live \ {c} :
                   \A j \in 1..Len(Nodes(d)) : Nodes(d)[j] # s.tail

\* the last of two elements has been erased and tail has moved to its
\* predecessor, while the other object holds elements with a tail of its own
C22_Witness ==
    /\ ret.op = "erase_pos" /\ ret.flag /\ ret.pos = Null
    /\ Len(Nodes(ret.c)) = 1
    /\ sl[ret.c].tail = Nodes(ret.c)[1]
    /\ \E d \in Live \ {ret.c} : Len(Nodes(d)) = 2 /\ sl[d].tail = Nodes(d)[2]

\* the number of successor slots of the node at address a, minus one
Height(h, a) == Cardinality(DOMAIN h[a].forward) - 1

\* C23: for every sequence of random draws the level generator returns a
\* height in 0..MAX_LEVEL; every node has exactly height + 1 successor slots
\* (the head MAX_LEVEL + 1); current_level never exceeds MAX_LEVEL; and a node
\* is the successor of another at level l only if l is at most its height.
\* So the descent, the splice and the unlink index the successor arrays and
\* the predecessor array within their bounds.
C23_LevelsWithinBounds ==
    /\ \A k \in 0..(MAX_LEVEL + MaxDraw + 1) :
         /\ random_level(k) \in 0..MAX_LEVEL
         /\ random_level(k) = IF k < MAX_LEVEL THEN k ELSE MAX_LEVEL
         /\ DOMAIN Node(DefaultValue, random_level(k)).forward = 0..random_level(k)
    /\ DOMAIN EmptyUpdate = 0..MAX_LEVEL
    /\ \A a \in Addrs :
         ~IsFree(heap, a) =>
           /\ Height(heap, a) \in 0..MAX_LEVEL
           /\ DOMAIN heap[a].forward = 0..Height(heap, a)
           /\ \A l \in DOMAIN heap[a].forward :
                heap[a].forward[l] # Null =>
                  /\ heap[a].forward[l] \in Addrs
                  /\ l \in DOMAIN heap[heap[a].forward[l]].forward
    /\ \A c \in Live :
         /\ sl[c].current_level \in 0..MAX_LEVEL
         /\ Height(heap, sl[c].head) = MAX_LEVEL
         /\ \A j \in 1..Len(Nodes(c)) :
              Height(heap, Nodes(c)[j]) <= sl[c].current_level

\* an insert whose draw reached the cap has linked a node with MAX_LEVEL + 1
\* slots behind a node with two slots
C23_Witness ==
    /\ ret.op = "insert" /\ ret.flag
    /\ Height(heap, ret.pos) = MAX_LEVEL
    /\ sl[ret.c].current_level = MAX_LEVEL
    /\ Len(Nodes(ret.c)) >= 2
    /\ Nodes(ret.c)[1] # ret.pos
    /\ Height(heap, Nodes(ret.c)[1]) = 1
    /\ heap[Nodes(ret.c)[1]].forward[1] = ret.pos

\* C24: when insert draws a height above current_level and the allocation of
\* the new node then fails, current_level has its value from before the call
\* once the failure has propagated, and the head slot at current_level is
\* non-null for a non-empty container with every higher head slot null.
C24_FailedInsertKeepsLevel ==
    [][ret'.op = "insert_threw" =>
         LET c == ret'.c
         IN /\ sl'[c].current_level = sl[c].current_level
            /\ Nodes0(heap', sl'[c]) # << >> =>
                 heap'[sl'[c].head].forward[sl'[c].current_level] # Null
            /\ \A i \in Levels :
                 i > sl'[c].current_level => heap'[sl'[c].head].forward[i] = Null
      ]_vars

====
